---- MODULE Spec2Model ----
(***************************************************************************)
(* Model of librustc/middle/trans/monomorphize.rs: the instantiation       *)
(* identity (MonoId, make_vtable_id) and monomorphic_fn with its cache     *)
(* (ccx.monomorphized), its recursion depth table (ccx.monomorphizing)     *)
(* and the re-entrant requests issued while a body is being emitted.       *)
(*                                                                         *)
(* An Option<T> is modelled as a sequence of length 0 (None) or 1 (Some),  *)
(* which is exactly what Option::iter() yields in the source.              *)
(***************************************************************************)
EXTENDS Integers, Sequences, FiniteSets, TLC

\* ------------------------------------------------------------------ bounds
MaxTy == 2          \* concrete types are 1..MaxTy
MaxLimit == 1       \* the session's recursion limit is drawn from 0..MaxLimit
MaxReq == 3         \* requests issued in one run of the backend pass

Ty == 1..MaxTy

Min(a, b) == IF a < b THEN a ELSE b

\* ------------------------------------------------------------ identity model
\* ty::substs as far as this file reads it: self_ty (Option) and tps.
substs(self_ty, tps) == [self_ty |-> self_ty, tps |-> tps]

NoSubsts == substs(<<>>, <<>>)

\* typeck::vtable_origin: vtable_static(impl_id, substs, sub_vtables), or any
\* other variant (vtable_param), which carries nothing this file reads.
vtable_static(impl_id, sb, sub_vtables) ==
    [tag |-> "vtable_static", impl_id |-> impl_id, substs |-> sb,
     sub_vtables |-> sub_vtables]

vtable_param ==
    [tag |-> "vtable_param", impl_id |-> "", substs |-> NoSubsts,
     sub_vtables |-> <<>>]

MonoParamId(subst, vtables) == [subst |-> subst, vtables |-> vtables]

MonoId(def, params) == [def |-> def, params |-> params]

\* The value standing for "fail!() unwound out of the identity construction".
Failed == MonoId("<fail>", <<>>)

\* A parameter identity one of whose selection identities could not be built.
ParamFailed(p) == \E j \in 1..Len(p.vtables) : p.vtables[j] = Failed

\* make_vtable_id with the sub-selections dropped from the identity.
make_vtable_id_flat(origin) ==
    IF origin.tag = "vtable_static"
    THEN MonoId(origin.impl_id,
                [i \in 1..Min(Len(origin.sub_vtables), Len(origin.substs.tps)) |->
                    MonoParamId(origin.substs.tps[i], <<>>)])
    ELSE Failed

\* an identity built from whatever variant the selection is
make_vtable_id_lenient(origin) == MonoId(origin.impl_id, <<>>)

RECURSIVE make_vtable_id(_)
make_vtable_id(origin) ==
    IF origin.tag = "vtable_static"
    THEN LET n == Min(Len(origin.sub_vtables), Len(origin.substs.tps))
             params == [i \in 1..n |->
                 MonoParamId(origin.substs.tps[i],
                             [j \in 1..Len(origin.sub_vtables[i]) |->
                                 make_vtable_id(origin.sub_vtables[i][j])])]
         IN  IF \E i \in 1..n : ParamFailed(params[i])
             THEN Failed
             ELSE MonoId(origin.impl_id, params)
    ELSE Failed

\* real_substs.self_ty.iter().chain(real_substs.tps.iter())
substs_iter(real_substs) == real_substs.self_ty \o real_substs.tps

\* self_vtables.iter().chain(vts.iter())
vts_iter(vts, self_vtables) == self_vtables \o vts

\* param_ids built from the declared type parameters only, the self type left out.
param_ids_no_self(real_substs, vtables, self_vtables) ==
    IF vtables # <<>>
    THEN LET vs == vts_iter(vtables[1], self_vtables)
             ss == real_substs.tps
         IN  [i \in 1..Min(Len(vs), Len(ss)) |->
                 MonoParamId(ss[i],
                             [j \in 1..Len(vs[i]) |-> make_vtable_id_flat(vs[i][j])])]
    ELSE [i \in 1..Len(real_substs.tps) |-> MonoParamId(real_substs.tps[i], <<>>)]

\* param_ids with one entry per type argument whatever the selection data holds:
\* an argument the selection lists do not reach gets an empty selection list.
param_ids_padded(real_substs, vtables, self_vtables) ==
    IF vtables # <<>>
    THEN LET vs == vts_iter(vtables[1], self_vtables)
             ss == substs_iter(real_substs)
         IN  [i \in 1..Len(ss) |->
                 MonoParamId(ss[i],
                             IF i <= Len(vs)
                             THEN [j \in 1..Len(vs[i]) |-> make_vtable_id(vs[i][j])]
                             ELSE <<>>)]
    ELSE [i \in 1..Len(substs_iter(real_substs)) |->
             MonoParamId(substs_iter(real_substs)[i], <<>>)]

param_ids(real_substs, vtables, self_vtables) ==
    IF vtables # <<>>
    THEN LET vs == vts_iter(vtables[1], self_vtables)
             ss == substs_iter(real_substs)
         IN  [i \in 1..Min(Len(vs), Len(ss)) |->
                 MonoParamId(ss[i],
                             [j \in 1..Len(vs[i]) |-> make_vtable_id(vs[i][j])])]
    ELSE [i \in 1..Len(substs_iter(real_substs)) |->
             MonoParamId(substs_iter(real_substs)[i], <<>>)]

hash_id(fn_id, real_substs, vtables, self_vtables) ==
    LET ps == param_ids(real_substs, vtables, self_vtables)
    IN  IF \E i \in 1..Len(ps) : ParamFailed(ps[i])
        THEN Failed
        ELSE MonoId(fn_id, ps)

\* ------------------------------------------------------------- the crate
\* ast_map nodes a DefId can resolve to (ccx.tcx.map.find), with what the
\* match arms of monomorphic_fn read of them.  node "None" is a DefId the
\* item map does not hold.  static_m is is_static_provided: the number of
\* type parameters of a static provided method, when the item is one.
Item(node, sub, static_m) == [node |-> node, sub |-> sub, static_m |-> static_m]

OtherNodes == {"NodeLifetime", "NodeExpr", "NodeStmt", "NodeArg", "NodeBlock",
               "NodePat", "NodeLocal"}

Items ==
    { Item("NodeItem", "ItemFn", <<>>),
      Item("NodeItem", "ItemOther", <<>>),
      Item("NodeForeignItem", "Extern", <<>>),
      Item("NodeForeignItem", "SimpleIntrinsic", <<>>),
      Item("NodeForeignItem", "Intrinsic", <<>>),
      Item("NodeVariant", "TupleVariantKind", <<>>),
      Item("NodeVariant", "StructVariantKind", <<>>),
      Item("NodeMethod", "", <<>>),
      Item("NodeTraitMethod", "Provided", <<>>),
      Item("NodeTraitMethod", "Provided", <<0>>),
      Item("NodeTraitMethod", "Provided", <<1>>),
      Item("NodeTraitMethod", "Required", <<>>),
      Item("NodeStructCtor", "", <<>>),
      Item("None", "", <<>>) }
    \cup { Item(n, "", <<>>) : n \in OtherNodes }

DefIds == {"f", "g"}

\* ------------------------------------------------------------------ handles
\* ValueRef: a declaration allocated by decl_internal_rust_fn, the existing
\* value of a foreign item, or the declaration of a simple intrinsic.
Handle(kind, n, def) == [kind |-> kind, n |-> n, def |-> def]

NoHandle == Handle("none", 0, "")

decl_internal_rust_fn(n) == Handle("decl", n, "")

get_item_val(fn_id) == Handle("item", 0, fn_id)

get_simple_intrinsic(fn_id) == Handle("simple", 0, fn_id)

\* ------------------------------------------------------------------- state
VARIABLES
    items,            \* ccx.tcx.map: DefId -> Item
    recursion_limit,  \* ccx.sess().recursion_limit
    monomorphized,    \* ccx.monomorphized: MonoId -> ValueRef
    monomorphizing,   \* ccx.monomorphizing: DefId -> depth
    n_monos,          \* ccx.stats.n_monos
    stack,            \* the active monomorphic_fn calls, innermost last
    status,           \* "running", or how the backend pass was aborted
    culprit,          \* the request that aborted the pass
    result,           \* what the last returned call returned
    returns,          \* every returned call so far
    next_decl,        \* declarations allocated so far
    emitted,          \* MonoId -> times a body emission was begun for it
    inserted,         \* MonoId -> times the cache insert was done for it
    nreq,             \* requests issued so far
    probe             \* the requests whose identities are compared (SpecId)

vars == <<items, recursion_limit, monomorphized, monomorphizing, n_monos,
          stack, status, culprit, result, returns, next_decl, emitted,
          inserted, nreq, probe>>

Request(fn_id, sb, vtables, self_vtables) ==
    [fn_id |-> fn_id, substs |-> sb, vtables |-> vtables,
     self_vtables |-> self_vtables]

NoRequest == Request("", NoSubsts, <<>>, <<>>)

NoProbe == [a |-> NoRequest, b |-> NoRequest, ida |-> Failed, idb |-> Failed,
            done |-> FALSE]

\* A leaf selection: an implementation without type parameters.
StaticLeaf(impl_id) == vtable_static(impl_id, NoSubsts, <<>>)

\* The argument bundles the callers of this run pass: two plain ones, one whose
\* selection is not statically resolved, one with a self type, and one with a
\* selection list more than it has arguments, the extra one not statically
\* resolved.
ReqArgs ==
    { [substs |-> substs(<<>>, <<t>>), vtables |-> <<>>, self_vtables |-> <<>>]
        : t \in {1, 2} }
    \cup { [substs |-> substs(<<>>, <<1>>), vtables |-> << << <<vtable_param>> >> >>,
            self_vtables |-> <<>>] }
    \cup { [substs |-> substs(<<2>>, <<1, 1>>), vtables |-> <<>>,
            self_vtables |-> <<>>] }
    \cup { [substs |-> substs(<<>>, <<1>>),
            vtables |-> << << <<StaticLeaf("impl1")>>, <<vtable_param>> >> >>,
            self_vtables |-> <<>>] }

\* f, the definition whose kind varies, is requested with every bundle; g, a
\* plain generic function of the same crate, with one.
Requests ==
    { Request("f", a.substs, a.vtables, a.self_vtables) : a \in ReqArgs }
    \cup { Request("g", substs(<<>>, <<1>>), <<>>, <<>>) }

ReqId(r) == hash_id(r.fn_id, r.substs, r.vtables, r.self_vtables)

Top == stack[Len(stack)]

Pop == SubSeq(stack, 1, Len(stack) - 1)

SetTop(f) == [stack EXCEPT ![Len(stack)] = f]

Count(c, id) == IF id \in DOMAIN c THEN c[id] ELSE 0

Bump(c, id) == [x \in DOMAIN c \cup {id} |-> IF x = id THEN Count(c, id) + 1 ELSE c[x]]

\* ------------------------------------------------- cache and depth table
\* a find that never sees an entry
cache_find_blind(cache, id) == <<>>

\* ccx.monomorphized.borrow().find(&hash_id)
cache_find(cache, id) == IF id \in DOMAIN cache THEN <<cache[id]>> ELSE <<>>

\* an insert that is lost
cache_insert_lost(cache, id, val) == cache

\* an insert under a key that keeps only the definition
cache_insert_by_def(cache, id, val) ==
    [x \in DOMAIN cache \cup {MonoId(id.def, <<>>)} |->
        IF x = MonoId(id.def, <<>>) THEN val ELSE cache[x]]

\* ccx.monomorphized.borrow_mut().insert(hash_id, lldecl)
cache_insert(cache, id, val) ==
    [x \in DOMAIN cache \cup {id} |-> IF x = id THEN val ELSE cache[x]]

\* match monomorphizing.find(&fn_id) { Some(&d) => d, None => 0 }
read_depth(table, fn_id) == IF fn_id \in DOMAIN table THEN table[fn_id] ELSE 0

\* the cut-off taken one level early
over_limit_early(depth, limit) == depth >= limit

\* depth > ccx.sess().recursion_limit.get()
\* the guard left out
over_limit_never(depth, limit) == FALSE

over_limit(depth, limit) == depth > limit

\* monomorphizing.insert(fn_id, d)
table_insert(table, fn_id, d) ==
    [x \in DOMAIN table \cup {fn_id} |-> IF x = fn_id THEN d ELSE table[x]]

\* the depth left as the nested calls left it
restore_depth_skipped(table, fn_id, depth) == table

\* the entry cleared on the way out
restore_depth_zero(table, fn_id, depth) == table_insert(table, fn_id, 0)

\* ccx.monomorphizing.borrow_mut().insert(fn_id, depth)
restore_depth(table, fn_id, depth) == table_insert(table, fn_id, depth)

\* --------------------------------------------------------- returned pairs
Ret(val, flag) == [val |-> val, flag |-> flag]

NoResult == Ret(NoHandle, FALSE)

\* return (val, false)
hit_return(val) == Ret(val, FALSE)

\* a foreign extern reported like every other instantiation
extern_return_false(fn_id) == Ret(get_item_val(fn_id), FALSE)

\* return (get_item_val(ccx, fn_id.node), true)
extern_return(fn_id) == Ret(get_item_val(fn_id), TRUE)

\* the final pair with the flag set
fresh_return_true(lldecl) == Ret(lldecl, TRUE)

\* (lldecl, false)
fresh_return(lldecl) == Ret(lldecl, FALSE)

\* ------------------------------------------------------ substitution adapter
\* is_static_provided: Some(m.generics.ty_params.len()) for a provided trait
\* method whose explicit self is SelfStatic.
is_static_provided(item) ==
    IF item.node = "NodeTraitMethod" /\ item.sub = "Provided"
    THEN item.static_m
    ELSE <<>>

\* the self type put in front of all the type parameters
mono_substs_self_first(item, real_substs) ==
    IF is_static_provided(item) = <<>>
    THEN [ok |-> TRUE, substs |-> real_substs]
    ELSE IF Len(real_substs.tps) < is_static_provided(item)[1]
            \/ real_substs.self_ty = <<>>
         THEN [ok |-> FALSE, substs |-> NoSubsts]
         ELSE [ok |-> TRUE,
               substs |-> substs(<<>>, <<real_substs.self_ty[1]>> \o real_substs.tps)]

\* The substs handed to ty::subst.  ok is FALSE where the task fails instead:
\* the slice bound tps.len() - num_method_ty_params underflows, or self_ty is
\* None at the unwrap.
mono_substs(item, real_substs) ==
    IF is_static_provided(item) = <<>>
    THEN [ok |-> TRUE, substs |-> real_substs]
    ELSE LET n == Len(real_substs.tps)
             idx == n - is_static_provided(item)[1]
         IN  IF idx < 0 \/ real_substs.self_ty = <<>>
             THEN [ok |-> FALSE, substs |-> NoSubsts]
             ELSE [ok |-> TRUE,
                   substs |-> substs(<<>>,
                       SubSeq(real_substs.tps, 1, idx)
                       \o <<real_substs.self_ty[1]>>
                       \o SubSeq(real_substs.tps, idx + 1, n))]

\* ------------------------------------------------------------ dispatch tags
\* the ABI test the wrong way round
IsForeignExtern_inverted(item) == item.node = "NodeForeignItem" /\ item.sub # "Extern"

\* NodeForeignItem whose ABI is not RustIntrinsic
IsForeignExtern(item) == item.node = "NodeForeignItem" /\ item.sub = "Extern"

\* every trait method sent down the provided-method arm
CallsMkLldecl_any_trait_method(item) ==
    \/ item.node = "NodeItem" /\ item.sub = "ItemFn"
    \/ item.node = "NodeForeignItem" /\ item.sub = "Intrinsic"
    \/ item.node = "NodeVariant"
    \/ item.node = "NodeMethod"
    \/ item.node = "NodeTraitMethod"
    \/ item.node = "NodeStructCtor"

\* every foreign intrinsic declared, the simply lowered ones too
CallsMkLldecl_simple_too(item) ==
    \/ item.node = "NodeItem" /\ item.sub = "ItemFn"
    \/ item.node = "NodeForeignItem" /\ item.sub \in {"Intrinsic", "SimpleIntrinsic"}
    \/ item.node = "NodeVariant"
    \/ item.node = "NodeMethod"
    \/ item.node = "NodeTraitMethod" /\ item.sub = "Provided"
    \/ item.node = "NodeStructCtor"

\* the arms of `match map_node` that call mk_lldecl()
CallsMkLldecl(item) ==
    \/ item.node = "NodeItem" /\ item.sub = "ItemFn"
    \/ item.node = "NodeForeignItem" /\ item.sub = "Intrinsic"
    \/ item.node = "NodeVariant"
    \/ item.node = "NodeMethod"
    \/ item.node = "NodeTraitMethod" /\ item.sub = "Provided"
    \/ item.node = "NodeStructCtor"

\* the arms that end in ccx.sess().bug(..) before any declaration is made
BugsAtDispatch(item) ==
    \/ item.node = "NodeItem" /\ item.sub # "ItemFn"
    \/ item.node = "NodeTraitMethod" /\ item.sub # "Provided"
    \/ item.node \in OtherNodes

\* the arm that calls bug(..) after mk_lldecl(): a struct-shaped variant
BugsAfterDecl(item) == item.node = "NodeVariant" /\ item.sub = "StructVariantKind"

\* get_simple_intrinsic(ccx, i) is Some(decl)
IsSimpleIntrinsic(item) == item.node = "NodeForeignItem" /\ item.sub = "SimpleIntrinsic"

\* ------------------------------------------------------------------- frames
\* One active call: its arguments, its locals (hash_id, depth, lldecl, the substs
\* behind mono_ty), where it stands, and n, the number of the request.
Frame(n, r, id, depth, pc, lldecl, sb) ==
    [n |-> n, req |-> r, fn_id |-> r.fn_id, hash_id |-> id, depth |-> depth,
     pc |-> pc, lldecl |-> lldecl, mono_substs |-> sb]

\* One returned call: the number of the request, its arguments, its identity,
\* the pair it returned and the return statement it left by.
Returned(n, r, id, ret, path) ==
    [n |-> n, req |-> r, hash_id |-> id, ret |-> ret, path |-> path]

\* A request can be issued by the driver (no call active) or by the emission
\* routine of the innermost active call (trans_fn, trans_enum_variant,
\* trans_tuple_struct, trans_intrinsic calling back into monomorphic_fn).
CanRequest ==
    /\ status = "running"
    /\ IF stack = <<>> THEN TRUE ELSE Top.pc = "emit"

Init ==
    /\ items \in { [d \in DefIds |-> IF d = "f" THEN it ELSE Item("NodeItem", "ItemFn", <<>>)]
                     : it \in Items }
    /\ recursion_limit \in 0..MaxLimit
    /\ monomorphized = <<>>
    /\ monomorphizing = <<>>
    /\ n_monos = 0
    /\ stack = <<>>
    /\ status = "running"
    /\ culprit = NoRequest
    /\ result = NoResult
    /\ returns = {}
    /\ next_decl = 0
    /\ emitted = <<>>
    /\ inserted = <<>>
    /\ nreq = 0
    /\ probe = NoProbe

Abort(how, r) ==
    /\ status' = how
    /\ culprit' = r
    /\ UNCHANGED <<items, recursion_limit, monomorphized, monomorphizing, stack,
                   result, returns, next_decl, emitted, inserted, probe>>

\* lines 55-71: make_vtable_id fails on a selection that is not vtable_static
RequestIdFails(r) ==
    /\ CanRequest
    /\ ReqId(r) = Failed
    /\ nreq' = nreq + 1
    /\ Abort("fail", r)
    /\ UNCHANGED n_monos

\* lines 78-83: the cache holds the identity
RequestHit(r) ==
    /\ CanRequest
    /\ ReqId(r) # Failed
    /\ cache_find(monomorphized, ReqId(r)) # <<>>
    /\ nreq' = nreq + 1
    /\ result' = hit_return(cache_find(monomorphized, ReqId(r))[1])
    /\ returns' = returns \cup {Returned(nreq', r, ReqId(r), result', "hit")}
    /\ UNCHANGED <<items, recursion_limit, monomorphized, monomorphizing, n_monos,
                   stack, status, culprit, next_decl, emitted, inserted, probe>>

Miss(r) ==
    /\ CanRequest
    /\ ReqId(r) # Failed
    /\ cache_find(monomorphized, ReqId(r)) = <<>>

\* lines 108-116: session::expect on a DefId the item map does not hold
RequestMissing(r) ==
    /\ Miss(r)
    /\ items[r.fn_id].node = "None"
    /\ nreq' = nreq + 1
    /\ Abort("fatal_missing", r)
    /\ UNCHANGED n_monos

\* lines 119-123: a foreign item that is not an intrinsic
RequestExtern(r) ==
    /\ Miss(r)
    /\ IsForeignExtern(items[r.fn_id])
    /\ nreq' = nreq + 1
    /\ result' = extern_return(r.fn_id)
    /\ returns' = returns \cup {Returned(nreq', r, ReqId(r), result', "extern")}
    /\ UNCHANGED <<items, recursion_limit, monomorphized, monomorphizing, n_monos,
                   stack, status, culprit, next_decl, emitted, inserted, probe>>

\* the result of the item-map lookup used without the expect
Proceeds_unchecked(r) ==
    /\ Miss(r)
    /\ ~IsForeignExtern(items[r.fn_id])

Proceeds(r) ==
    /\ Miss(r)
    /\ items[r.fn_id].node # "None"
    /\ ~IsForeignExtern(items[r.fn_id])

\* lines 158-162: the reshaping of a static provided method's substs fails
RequestSubstFails(r) ==
    /\ Proceeds(r)
    /\ ~mono_substs(items[r.fn_id], r.substs).ok
    /\ nreq' = nreq + 1
    /\ Abort("fail", r)
    /\ UNCHANGED n_monos

\* lines 175-190: the depth read for fn_id is over the recursion limit
RequestOverLimit(r) ==
    /\ Proceeds(r)
    /\ mono_substs(items[r.fn_id], r.substs).ok
    /\ over_limit(read_depth(monomorphizing, r.fn_id), recursion_limit)
    /\ nreq' = nreq + 1
    /\ n_monos' = n_monos + 1
    /\ Abort("fatal_recursion", r)

\* lines 175-193: the guard is passed and the depth raised
RequestEnter(r) ==
    /\ Proceeds(r)
    /\ mono_substs(items[r.fn_id], r.substs).ok
    /\ ~over_limit(read_depth(monomorphizing, r.fn_id), recursion_limit)
    /\ nreq' = nreq + 1
    /\ n_monos' = n_monos + 1
    /\ monomorphizing' = table_insert(monomorphizing, r.fn_id,
                                      read_depth(monomorphizing, r.fn_id) + 1)
    /\ stack' = Append(stack, Frame(nreq', r, ReqId(r), read_depth(monomorphizing, r.fn_id),
                                    "dispatch", NoHandle,
                                    mono_substs(items[r.fn_id], r.substs).substs))
    /\ UNCHANGED <<items, recursion_limit, monomorphized, status, culprit, result,
                   returns, next_decl, emitted, inserted, probe>>

AtPc(pc) == status = "running" /\ stack # <<>> /\ Top.pc = pc

\* lines 226-228, 277-280, 296-305: an arm that is a compiler bug
DispatchBug ==
    /\ AtPc("dispatch")
    /\ BugsAtDispatch(items[Top.fn_id])
    /\ Abort("bug", Top.req)
    /\ UNCHANGED <<n_monos, nreq>>

\* lines 232-234: get_simple_intrinsic found a declaration
DispatchSimple ==
    /\ AtPc("dispatch")
    /\ IsSimpleIntrinsic(items[Top.fn_id])
    /\ stack' = SetTop([Top EXCEPT !.lldecl = get_simple_intrinsic(Top.fn_id),
                                   !.pc = "restore"])
    /\ UNCHANGED <<items, recursion_limit, monomorphized, monomorphizing, n_monos,
                   status, culprit, result, returns, next_decl, emitted, inserted,
                   nreq, probe>>

\* line 209: mk_lldecl allocates the declaration
Declare ==
    /\ AtPc("dispatch")
    /\ CallsMkLldecl(items[Top.fn_id])
    /\ next_decl' = next_decl + 1
    /\ stack' = SetTop([Top EXCEPT !.lldecl = decl_internal_rust_fn(next_decl'),
                                   !.pc = "declared"])
    /\ UNCHANGED <<items, recursion_limit, monomorphized, monomorphizing, n_monos,
                   status, culprit, result, returns, emitted, inserted, nreq, probe>>

\* line 210: mk_lldecl inserts it into the cache
Insert ==
    /\ AtPc("declared")
    /\ monomorphized' = cache_insert(monomorphized, Top.hash_id, Top.lldecl)
    /\ inserted' = Bump(inserted, Top.hash_id)
    /\ stack' = SetTop([Top EXCEPT !.pc = "inserted"])
    /\ UNCHANGED <<items, recursion_limit, monomorphizing, n_monos, status, culprit,
                   result, returns, next_decl, emitted, nreq, probe>>

\* lines 258-259: a struct-shaped variant is a compiler bug, after mk_lldecl
VariantBug ==
    /\ AtPc("inserted")
    /\ BugsAfterDecl(items[Top.fn_id])
    /\ Abort("bug", Top.req)
    /\ UNCHANGED <<n_monos, nreq>>

\* lines 223, 237, 250, 266, 274, 286: the emission routine is called
BeginEmit ==
    /\ AtPc("inserted")
    /\ ~BugsAfterDecl(items[Top.fn_id])
    /\ emitted' = Bump(emitted, Top.hash_id)
    /\ stack' = SetTop([Top EXCEPT !.pc = "emit"])
    /\ UNCHANGED <<items, recursion_limit, monomorphized, monomorphizing, n_monos,
                   status, culprit, result, returns, next_decl, inserted, nreq, probe>>

\* lines 308-311: the emission routine returned; restore the depth and return
Finish ==
    /\ status = "running" /\ stack # <<>> /\ Top.pc \in {"emit", "restore"}
    /\ monomorphizing' = restore_depth(monomorphizing, Top.fn_id, Top.depth)
    /\ result' = fresh_return(Top.lldecl)
    /\ returns' = returns \cup {Returned(Top.n, Top.req, Top.hash_id, result', "fresh")}
    /\ stack' = Pop
    /\ UNCHANGED <<items, recursion_limit, monomorphized, n_monos, status, culprit,
                   next_decl, emitted, inserted, nreq, probe>>

monomorphic_fn(r) ==
    \/ RequestIdFails(r)
    \/ RequestHit(r)
    \/ RequestMissing(r)
    \/ RequestExtern(r)
    \/ RequestSubstFails(r)
    \/ RequestOverLimit(r)
    \/ RequestEnter(r)

Next ==
    \/ \E r \in { q \in Requests : nreq < MaxReq } : monomorphic_fn(r)
    \/ DispatchBug
    \/ DispatchSimple
    \/ Declare
    \/ Insert
    \/ VariantBug
    \/ BeginEmit
    \/ Finish

Spec == Init /\ [][Next]_vars

\* ------------------------------------------------- ever-growing requests
\* A driver issues one request; the emission routine of every instantiation
\* may issue one nested request, for any definition, whose type argument is
\* larger than every argument requested before, so that no request is a hit.
\* No request carries selection data, so no identity fails to build.
GrowCap == Cardinality(DefIds) * (MaxLimit + 1) + 2

GrowRequests == { Request(d, substs(<<>>, <<nreq + 1>>), <<>>, <<>>) : d \in DefIds }

\* The driver has issued nothing yet, or the innermost emission has not.
GrowTurn ==
    /\ nreq < GrowCap
    /\ IF stack = <<>> THEN nreq = 0 ELSE nreq = Top.n

GrowNext ==
    \/ \E r \in GrowRequests : GrowTurn /\ RequestMissing(r)
    \/ \E r \in GrowRequests : GrowTurn /\ RequestExtern(r)
    \/ \E r \in GrowRequests : GrowTurn /\ RequestSubstFails(r)
    \/ \E r \in GrowRequests : GrowTurn /\ RequestOverLimit(r)
    \/ \E r \in GrowRequests : GrowTurn /\ RequestEnter(r)
    \/ DispatchBug
    \/ DispatchSimple
    \/ Declare
    \/ Insert
    \/ VariantBug
    \/ BeginEmit
    \/ Finish

\* monomorphic_fn is straight-line sequential code: a step that can run, runs.
SpecGrow == Init /\ [][GrowNext]_vars /\ WF_vars(GrowNext)

\* --------------------------------------------------- identities compared
\* Selection trees of depth up to two, with sub-selection lists shorter than,
\* as long as and longer than the implementation's type parameters.
ProbeTy == Ty

ProbeLeaves == {StaticLeaf("impl1"), StaticLeaf("impl2"), vtable_param}

ProbeOrigins ==
    ProbeLeaves
    \cup { vtable_static("impl1", substs(<<>>, <<1>>), << <<o>> >>) : o \in ProbeLeaves }
    \cup { vtable_static("impl1", substs(<<1>>, <<1>>), << <<StaticLeaf("impl1")>> >>),
           vtable_static("impl1", NoSubsts, << <<StaticLeaf("impl1")>> >>),
           vtable_static("impl1", NoSubsts, << <<vtable_param>> >>),
           vtable_static("impl1", substs(<<>>, <<1>>), <<>>) }

ProbeSubsts ==
    { substs(s, tps) :
        s \in {<<>>, <<1>>},
        tps \in {<<>>} \cup { <<t>> : t \in ProbeTy } \cup { <<1, t>> : t \in ProbeTy } }

ProbeVtables ==
    {<<>>, << <<>> >>}
    \cup { << << <<o>> >> >> : o \in ProbeOrigins }
    \cup { << <<v, w>> >> : v \in {<<>>, <<StaticLeaf("impl1")>>},
                            w \in {<<>>, <<StaticLeaf("impl2")>>} }

ProbeSelfVtables == {<<>>, << <<StaticLeaf("impl2")>> >>}

ProbeRequests ==
    { Request("f", sb, vt, sv) :
        sb \in ProbeSubsts, vt \in ProbeVtables, sv \in ProbeSelfVtables }

InitId ==
    /\ items = [d \in DefIds |-> Item("NodeItem", "ItemFn", <<>>)]
    /\ recursion_limit = 0
    /\ monomorphized = <<>>
    /\ monomorphizing = <<>>
    /\ n_monos = 0
    /\ stack = <<>>
    /\ status = "running"
    /\ culprit = NoRequest
    /\ result = NoResult
    /\ returns = {}
    /\ next_decl = 0
    /\ emitted = <<>>
    /\ inserted = <<>>
    /\ nreq = 0
    /\ probe \in { [a |-> x, b |-> y, ida |-> Failed, idb |-> Failed, done |-> FALSE]
                     : x \in ProbeRequests, y \in ProbeRequests }

\* lines 55-76 applied to both requests
ComputeIds ==
    /\ ~probe.done
    /\ probe' = [probe EXCEPT !.ida = ReqId(probe.a), !.idb = ReqId(probe.b),
                              !.done = TRUE]
    /\ UNCHANGED <<items, recursion_limit, monomorphized, monomorphizing, n_monos,
                   stack, status, culprit, result, returns, next_decl, emitted,
                   inserted, nreq>>

NextId == ComputeIds

SpecId == InitId /\ [][NextId]_vars

\* ------------------------------------------------------------------ claims
\* The active calls for definition d that passed the recursion guard.
InFlight(d) == Cardinality({ i \in 1..Len(stack) : stack[i].fn_id = d })

\* The identities of the active calls and of the aborted request are all different.
ChainAllMisses ==
    /\ \A i, j \in 1..Len(stack) : i # j => stack[i].hash_id # stack[j].hash_id
    /\ \A i \in 1..Len(stack) : stack[i].hash_id # ReqId(culprit)

\* The returned call x was a plain generic function requested without selections.
PlainNoSelections(x) ==
    /\ items[x.req.fn_id] = Item("NodeItem", "ItemFn", <<>>)
    /\ x.req.vtables = <<>>
    /\ x.req.self_vtables = <<>>

\* C1: over any sequence of requests, nested ones included, the cache insert is
\* done at most once per MonoId and a body emission is begun at most once per
\* MonoId.
C1_AtMostOncePerMonoId ==
    /\ \A id \in DOMAIN inserted : inserted[id] <= 1
    /\ \A id \in DOMAIN emitted : emitted[id] <= 1

\* C1 witness: a request for an identity was issued from inside the emission of
\* that same identity, and the identity still has one insert and one emission.
C1_Witness ==
    \E i \in 1..Len(stack) : \E x \in returns :
        /\ stack[i].pc = "emit"
        /\ x.hash_id = stack[i].hash_id
        /\ x.n > stack[i].n
        /\ Count(inserted, x.hash_id) = 1
        /\ Count(emitted, x.hash_id) = 1

\* C2: when a definition is requested twice with the same arguments and the same
\* selections, and the first request inserted a cache entry, the second returns
\* the flag false and the handle of the first, and begins no emission.
C2_Memoization ==
    \A x \in returns : \A y \in returns :
        ( /\ x.req = y.req
          /\ x.n # y.n
          /\ x.path = "fresh"
          /\ Count(inserted, x.hash_id) >= 1 )
        => /\ y.path = "hit"
           /\ y.ret.flag = FALSE
           /\ y.ret.val = x.ret.val
           /\ Count(emitted, x.hash_id) = 1

\* C2 witness: a request that emitted and a later, separate request with the same
\* arguments have both returned.
C2_Witness ==
    \E x \in returns : \E y \in returns :
        /\ x.req = y.req
        /\ x.path = "fresh"
        /\ y.path = "hit"
        /\ y.n > x.n
        /\ stack = <<>>

\* C3 as stated: a plain generic function requested twice with the same argument
\* and no selections returns the flag true the first time and false the second
\* time, with the same handle.
C3_FlagTellsFreshEmission ==
    \A x \in returns : \A y \in returns :
        ( /\ PlainNoSelections(x)
          /\ x.req = y.req
          /\ x.path = "fresh"
          /\ y.path = "hit" )
        => /\ x.ret.flag = TRUE
           /\ y.ret.flag = FALSE
           /\ x.ret.val = y.ret.val

\* C3 amended: a plain generic function requested twice with the same argument and
\* no selections returns the flag false both times, with the same handle.
C3_FlagFalseBothTimes ==
    \A x \in returns : \A y \in returns :
        ( /\ PlainNoSelections(x)
          /\ x.req = y.req
          /\ x.path = "fresh"
          /\ y.path = "hit" )
        => /\ x.ret.flag = FALSE
           /\ y.ret.flag = FALSE
           /\ x.ret.val = y.ret.val

\* C3 witness: g<1>, a plain generic function, was requested and emitted, then
\* requested again.
C3_Witness ==
    \E x \in returns : \E y \in returns :
        /\ PlainNoSelections(x)
        /\ x.req.fn_id = "g"
        /\ x.req = y.req
        /\ x.path = "fresh"
        /\ y.path = "hit"
        /\ y.n > x.n

\* C4: the recursion-limit error is raised for a request of a definition exactly
\* when that request is nested in recursion_limit + 1 active fresh
\* instantiations of the definition (it is the (limit + 1)-th nested one), never
\* with fewer; so no definition ever has more than limit + 1 of them active.
C4_RecursionBound ==
    /\ \A d \in DefIds : InFlight(d) <= recursion_limit + 1
    /\ status = "fatal_recursion" => InFlight(culprit.fn_id) = recursion_limit + 1
    /\ \A i \in 1..Len(stack) : stack[i].depth <= recursion_limit

\* C4 witness: with a limit of at least one, f re-requested itself at every level
\* with an identity not requested before, and the innermost request hit the limit.
C4_Witness ==
    /\ status = "fatal_recursion"
    /\ recursion_limit >= 1
    /\ culprit.fn_id = "f"
    /\ Len(stack) = recursion_limit + 1
    /\ \A i \in 1..Len(stack) : stack[i].fn_id = "f" /\ stack[i].pc = "emit"
    /\ ChainAllMisses

\* The state part of C5: a call that made a declaration holds it before the
\* insert, the cache maps its identity to that declaration from the insert on,
\* and emission is begun only after, and once.
C5_Order ==
    \A i \in 1..Len(stack) :
        /\ stack[i].pc = "declared" =>
              /\ stack[i].lldecl.kind = "decl"
              /\ Count(emitted, stack[i].hash_id) = 0
        /\ stack[i].pc = "inserted" =>
              /\ cache_find(monomorphized, stack[i].hash_id) = <<stack[i].lldecl>>
              /\ stack[i].lldecl.kind = "decl"
              /\ Count(emitted, stack[i].hash_id) = 0
        /\ stack[i].pc = "emit" =>
              /\ cache_find(monomorphized, stack[i].hash_id) = <<stack[i].lldecl>>
              /\ stack[i].lldecl.kind = "decl"
              /\ Count(emitted, stack[i].hash_id) = 1

\* The step part of C5: a request for the identity of a call that is emitting
\* returns that call's declaration by the hit path, and changes neither the depth
\* table nor the active calls nor the emissions.
C5_NestedSameIdIsHit ==
    \A i \in 1..Len(stack) : \A r \in Requests :
        ( /\ stack[i].pc = "emit"
          /\ ReqId(r) = stack[i].hash_id
          /\ monomorphic_fn(r) )
        => /\ result' = Ret(stack[i].lldecl, FALSE)
           /\ Returned(nreq', r, ReqId(r), result', "hit") \in returns'
           /\ UNCHANGED <<monomorphizing, stack, emitted, inserted, monomorphized>>

\* C5: within one request the declaration is allocated, then the MonoId is
\* inserted into the cache, then emission begins; a nested request for the same
\* MonoId during that emission is a cache hit on the in-progress handle that does
\* not re-enter emission and leaves the depth table alone, so the identity is
\* emitted exactly once.
C5_DeclareInsertEmit == [](C5_Order) /\ [][C5_NestedSameIdIsHit]_vars

\* C5 witness: f<1> requested itself with the same arguments from inside its own
\* emission and got its own declaration back.
C5_Witness ==
    /\ Len(stack) = 1
    /\ stack[1].pc = "emit"
    /\ stack[1].fn_id = "f"
    /\ Returned(nreq, stack[1].req, stack[1].hash_id, Ret(stack[1].lldecl, FALSE), "hit")
           \in returns
    /\ nreq > stack[1].n
    /\ monomorphizing["f"] = 1

\* The step of C6: when the innermost active call returns, the depth table's
\* entry for its definition is the value it read on entry.
C6_FinishRestores ==
    (stack # <<>> /\ stack' = Pop) =>
        read_depth(monomorphizing', Top.fn_id) = Top.depth

\* C6: a request that passed the recursion guard and returns normally leaves the
\* depth-table entry of its definition at the value read when it was entered,
\* whatever nested requests ran during its emission.
C6_DepthRestored == [][C6_FinishRestores]_vars

\* C6 witness: inside an active call of f, a nested call of f that itself had a
\* nested call of g has returned, and f's entry is back at what the nested call
\* read.
C6_Witness ==
    /\ Len(stack) = 1
    /\ Top.fn_id = "f"
    /\ \E x \in returns : \E y \in returns :
          /\ x.path = "fresh" /\ x.req.fn_id = "f" /\ x.n > Top.n
          /\ y.path = "fresh" /\ y.req.fn_id = "g" /\ y.n > x.n
    /\ read_depth(monomorphizing, "f") = Top.depth + 1
    /\ read_depth(monomorphizing, "g") = 0

\* The selection lists of a request that carries selection data, the self
\* selection first.
Sel(r) == vts_iter(r.vtables[1], r.self_vtables)

\* A selection tree without the self types of its implementations.
RECURSIVE EraseSelf(_)
EraseSelf(o) ==
    [o EXCEPT !.substs = substs(<<>>, o.substs.tps),
              !.sub_vtables = [i \in 1..Len(o.sub_vtables) |->
                                  [j \in 1..Len(o.sub_vtables[i]) |->
                                      EraseSelf(o.sub_vtables[i][j])]]]

EraseSelfAll(vs) ==
    [i \in 1..Len(vs) |-> [j \in 1..Len(vs[i]) |-> EraseSelf(vs[i][j])]]

\* Every implementation of the tree is statically resolved and carries one
\* sub-selection list per type parameter.
RECURSIVE WellShaped(_)
WellShaped(o) ==
    /\ o.tag = "vtable_static"
    /\ Len(o.sub_vtables) = Len(o.substs.tps)
    /\ \A i \in 1..Len(o.sub_vtables) : \A j \in 1..Len(o.sub_vtables[i]) :
           WellShaped(o.sub_vtables[i][j])

\* The request carries one well-shaped selection list per type argument.
OneSelectionPerArgument(r) ==
    /\ r.vtables # <<>>
    /\ Len(Sel(r)) = Len(substs_iter(r.substs))
    /\ \A i \in 1..Len(Sel(r)) : \A j \in 1..Len(Sel(r)[i]) : WellShaped(Sel(r)[i][j])

\* The request carries no selection data, or a selection list for every argument.
SelectionsCoverArguments(r) ==
    IF r.vtables = <<>> THEN TRUE ELSE Len(Sel(r)) >= Len(substs_iter(r.substs))

BothIdsBuilt == probe.done /\ probe.ida # Failed /\ probe.idb # Failed

\* C7 as stated: two requests with the same definition and the same arguments
\* whose selection data differ anywhere have unequal MonoIds.
C7_AnySelectionDifferenceShows ==
    ( /\ BothIdsBuilt
      /\ probe.a.fn_id = probe.b.fn_id
      /\ probe.a.substs = probe.b.substs
      /\ <<probe.a.vtables, probe.a.self_vtables>>
             # <<probe.b.vtables, probe.b.self_vtables>> )
    => probe.ida # probe.idb

\* C7 amended: two requests with the same definition and the same arguments that
\* both carry one selection list per type argument (self selection first), all
\* of whose implementations carry one sub-selection list per type parameter,
\* have unequal MonoIds whenever their selection lists differ at any depth in
\* something other than an implementation's self type.
C7_SelectionSensitivity ==
    ( /\ BothIdsBuilt
      /\ probe.a.fn_id = probe.b.fn_id
      /\ probe.a.substs = probe.b.substs
      /\ OneSelectionPerArgument(probe.a)
      /\ OneSelectionPerArgument(probe.b)
      /\ EraseSelfAll(Sel(probe.a)) # EraseSelfAll(Sel(probe.b)) )
    => probe.ida # probe.idb

\* C7 witness: two requests whose selections agree in the implementation and its
\* type parameters and differ only in a sub-selection, with unequal MonoIds.
C7_Witness ==
    /\ BothIdsBuilt
    /\ probe.a.substs = probe.b.substs
    /\ OneSelectionPerArgument(probe.a)
    /\ OneSelectionPerArgument(probe.b)
    /\ Len(Sel(probe.a)) = 1
    /\ Len(Sel(probe.a)[1]) = 1
    /\ Len(Sel(probe.b)[1]) = 1
    /\ Sel(probe.a)[1][1].impl_id = Sel(probe.b)[1][1].impl_id
    /\ Sel(probe.a)[1][1].substs = Sel(probe.b)[1][1].substs
    /\ Sel(probe.a)[1][1].sub_vtables # Sel(probe.b)[1][1].sub_vtables
    /\ probe.ida # probe.idb

\* C8 as stated: two requests on the same definition whose argument lists (self
\* type first) differ have unequal MonoIds, whatever selection data they carry.
C8_ArgumentsAlwaysShow ==
    ( /\ BothIdsBuilt
      /\ probe.a.fn_id = probe.b.fn_id
      /\ substs_iter(probe.a.substs) # substs_iter(probe.b.substs) )
    => probe.ida # probe.idb

\* C8 amended: two requests on the same definition whose argument lists (self
\* type first) differ have unequal MonoIds provided each carries no selection
\* data or at least as many selection lists (self selection first) as arguments.
C8_ArgumentsShowWhenCovered ==
    ( /\ BothIdsBuilt
      /\ probe.a.fn_id = probe.b.fn_id
      /\ substs_iter(probe.a.substs) # substs_iter(probe.b.substs)
      /\ SelectionsCoverArguments(probe.a)
      /\ SelectionsCoverArguments(probe.b) )
    => probe.ida # probe.idb

\* C8 witness: a request with a self type and selection lists for both of its
\* arguments and a request without selection data, with different argument lists
\* of the same length and unequal MonoIds.
C8_Witness ==
    /\ BothIdsBuilt
    /\ probe.a.vtables # <<>>
    /\ probe.a.substs.self_ty # <<>>
    /\ probe.b.vtables = <<>>
    /\ Len(Sel(probe.a)) >= Len(substs_iter(probe.a.substs))
    /\ Len(substs_iter(probe.a.substs)) = 2
    /\ Len(substs_iter(probe.b.substs)) = 2
    /\ substs_iter(probe.a.substs) # substs_iter(probe.b.substs)
    /\ probe.ida # probe.idb

\* The kinds the dispatch has an emitting or reusing arm for.
Supported(item) ==
    \/ item.node = "NodeItem" /\ item.sub = "ItemFn"
    \/ item.node = "NodeForeignItem"
    \/ item.node = "NodeVariant" /\ item.sub = "TupleVariantKind"
    \/ item.node = "NodeMethod"
    \/ item.node = "NodeTraitMethod" /\ item.sub = "Provided"
    \/ item.node = "NodeStructCtor"

\* The kinds of the item map the dispatch has no such arm for.
Unsupported(item) == item.node # "None" /\ ~Supported(item)

IsHandle(val) == val.kind \in {"decl", "item", "simple"}

\* The state part of C9.
C9_Outcomes ==
    /\ \A x \in returns : Supported(items[x.req.fn_id]) /\ IsHandle(x.ret.val)
    /\ \A i \in 1..Len(stack) :
           /\ stack[i].pc \in {"emit", "restore"} =>
                  Supported(items[stack[i].fn_id]) /\ IsHandle(stack[i].lldecl)
           /\ Unsupported(items[stack[i].fn_id]) => i = Len(stack)
    /\ status = "bug" => Unsupported(items[culprit.fn_id])
    /\ status = "fatal_recursion" => Supported(items[culprit.fn_id])
    /\ (status = "running" /\ stack # <<>> /\ Unsupported(items[Top.fn_id]))
           => ENABLED (DispatchBug \/ Declare \/ Insert \/ VariantBug)

\* The step part of C9: a call of an unsupported kind goes nowhere but to the
\* internal-error abort (a struct-shaped variant by way of mk_lldecl).
C9_UnsupportedOnlyAborts ==
    (stack # <<>> /\ Unsupported(items[Top.fn_id]))
    => \/ status' = "bug" /\ culprit' = Top.req
       \/ /\ BugsAfterDecl(items[Top.fn_id])
          /\ Len(stack') = Len(stack)
          /\ stack'[Len(stack)].pc \in {"declared", "inserted"}
          /\ status' = "running"

\* C9: on a cache miss every supported kind (plain function, foreign intrinsic,
\* foreign extern, tuple-shaped variant, inherent method, provided trait method,
\* tuple-struct constructor) takes an arm that yields a Handle, and every
\* unsupported kind (struct-shaped variant, required trait method, non-function
\* item, expression, statement, pattern, local, block, lifetime, argument) ends
\* in the internal-error abort and never returns a Handle.
C9_KindDispatch == [](C9_Outcomes) /\ [][C9_UnsupportedOnlyAborts]_vars

\* C9 witness: a miss on g, a plain function, returned a fresh declaration, and
\* a miss on f, of an unsupported kind, ended in the internal-error abort.
C9_Witness ==
    /\ status = "bug"
    /\ culprit.fn_id = "f"
    /\ Unsupported(items["f"])
    /\ \E x \in returns :
          x.path = "fresh" /\ x.req.fn_id = "g" /\ x.ret.val.kind = "decl"

\* C10 as stated: a request for a foreign declaration that is not an intrinsic
\* returns the existing external handle with the flag false.
C10_ExternFlagFalse ==
    \A x \in returns :
        IsForeignExtern(items[x.req.fn_id])
        => x.ret = Ret(get_item_val(x.req.fn_id), FALSE)

\* C10 amended: a request for a foreign declaration that is not an intrinsic
\* returns the existing external handle with the flag true.
C10_ExternFlagTrue ==
    \A x \in returns :
        IsForeignExtern(items[x.req.fn_id])
        => x.ret = Ret(get_item_val(x.req.fn_id), TRUE)

\* C10 witness: a foreign extern was requested from inside an emission and
\* returned.
C10_Witness ==
    /\ stack # <<>>
    /\ \E x \in returns :
          /\ IsForeignExtern(items[x.req.fn_id])
          /\ x.path = "extern"
          /\ x.n > Top.n

\* The type arguments of an identity, in the order of its parameters.
IdArgs(id) == [j \in 1..Len(id.params) |-> id.params[j].subst]

\* C11: for a static provided trait method with m method-level type parameters
\* and a request with n = k + m type arguments and a self type, the arguments
\* substituted into the method's type are args[0..k], the self type, args[k..n]
\* (n + 1 of them, no self-type slot), while the MonoId looked up and inserted
\* is the one of the n arguments as supplied, self type first.
C11_SelfTypeReinsertion ==
    \A i \in 1..Len(stack) :
        is_static_provided(items[stack[i].fn_id]) # <<>> =>
            LET f == stack[i]
                m == is_static_provided(items[f.fn_id])[1]
                args == f.req.substs.tps
                n == Len(args)
                k == n - m
            IN  /\ k >= 0
                /\ f.req.substs.self_ty # <<>>
                /\ f.mono_substs.self_ty = <<>>
                /\ Len(f.mono_substs.tps) = n + 1
                /\ \A j \in 1..k : f.mono_substs.tps[j] = args[j]
                /\ f.mono_substs.tps[k + 1] = f.req.substs.self_ty[1]
                /\ \A j \in (k + 1)..n : f.mono_substs.tps[j + 1] = args[j]
                /\ f.hash_id.def = f.fn_id
                /\ f.req.vtables = <<>> =>
                       IdArgs(f.hash_id) = f.req.substs.self_ty \o args
                /\ f.pc \in {"inserted", "emit"} =>
                       cache_find(monomorphized, f.hash_id) = <<f.lldecl>>

\* C11 witness: a static provided method with one method-level parameter is being
\* emitted for the arguments <<1, 1>> and the self type 2: the substitution list
\* is <<1, 2, 1>> and the cached identity lists 2, 1, 1.
C11_Witness ==
    /\ stack # <<>>
    /\ Top.pc = "emit"
    /\ is_static_provided(items[Top.fn_id]) = <<1>>
    /\ Top.mono_substs = substs(<<>>, <<1, 2, 1>>)
    /\ IdArgs(Top.hash_id) = <<2, 1, 1>>
    /\ Top.hash_id \in DOMAIN monomorphized

\* The step of C12: every entry of the cache is still there, with its handle.
C12_EntriesKept ==
    \A id \in DOMAIN monomorphized :
        cache_find(monomorphized', id) = <<monomorphized[id]>>

\* C12: across every step of any sequence of requests a MonoId present in the
\* cache stays present and stays mapped to the same Handle.
C12_CacheOnlyGrows == [][C12_EntriesKept]_vars

\* C12 witness: the cache holds two entries made by different calls, the second
\* inserted during the emission of the first, and a request has hit the first.
C12_Witness ==
    /\ Cardinality(DOMAIN monomorphized) >= 2
    /\ Len(stack) = 2
    /\ stack[2].pc = "emit"
    /\ \E x \in returns : x.path = "hit" /\ x.hash_id = stack[1].hash_id /\ x.n > stack[2].n

\* The selection tree holds a node that is not vtable_static, anywhere.
RECURSIVE AnyNonStatic(_)
AnyNonStatic(o) ==
    \/ o.tag # "vtable_static"
    \/ \E i \in 1..Len(o.sub_vtables) : \E j \in 1..Len(o.sub_vtables[i]) :
           AnyNonStatic(o.sub_vtables[i][j])

\* The selection data of the request holds such a node, anywhere.
ReqAnyNonStatic(r) ==
    \/ \E v \in 1..Len(r.vtables) : \E i \in 1..Len(r.vtables[v]) :
           \E j \in 1..Len(r.vtables[v][i]) : AnyNonStatic(r.vtables[v][i][j])
    \/ \E v \in 1..Len(r.self_vtables) : \E j \in 1..Len(r.self_vtables[v]) :
           AnyNonStatic(r.self_vtables[v][j])

\* The selection tree holds a node that is not vtable_static at a place that is
\* paired with a type parameter.
RECURSIVE PairedNonStatic(_)
PairedNonStatic(o) ==
    \/ o.tag # "vtable_static"
    \/ \E i \in 1..Min(Len(o.sub_vtables), Len(o.substs.tps)) :
           \E j \in 1..Len(o.sub_vtables[i]) : PairedNonStatic(o.sub_vtables[i][j])

\* The request carries selection data with such a node in a selection list that
\* is paired with a type argument.
ReqPairedNonStatic(r) ==
    /\ r.vtables # <<>>
    /\ \E i \in 1..Min(Len(Sel(r)), Len(substs_iter(r.substs))) :
           \E j \in 1..Len(Sel(r)[i]) : PairedNonStatic(Sel(r)[i][j])

C13_PairedNonStaticStep ==
    \A r \in Requests :
        (ReqPairedNonStatic(r) /\ monomorphic_fn(r))
        => /\ status' = "fail"
           /\ culprit' = r
           /\ UNCHANGED <<monomorphized, monomorphizing, n_monos, stack, returns,
                          result, inserted, emitted>>

IsCacheMiss(r) == ReqId(r) # Failed /\ ReqId(r) \notin DOMAIN monomorphized

\* The step of C14.
C14_MissingStep ==
    \A r \in Requests :
        (IsCacheMiss(r) /\ items[r.fn_id].node = "None" /\ monomorphic_fn(r))
        => /\ status' = "fatal_missing"
           /\ culprit' = r
           /\ UNCHANGED <<monomorphized, monomorphizing, n_monos, stack, returns,
                          result, inserted, emitted>>

\* C14: a cache-miss request whose definition the item map does not hold ends
\* in the fatal error, returns no Handle, and has changed neither the cache nor
\* the depth table when it aborts.
C14_MissingDefinition ==
    [][C14_MissingStep]_vars
    /\ [](\A x \in returns : items[x.req.fn_id].node # "None")
    /\ [](\A i \in 1..Len(stack) : items[stack[i].fn_id].node # "None")

\* C14 witness: the emission of g requested f, which the item map does not hold.
C14_Witness ==
    /\ status = "fatal_missing"
    /\ culprit.fn_id = "f"
    /\ Len(stack) = 1
    /\ Top.fn_id = "g"
    /\ DOMAIN monomorphized = {Top.hash_id}
    /\ monomorphizing = [d \in {"g"} |-> 1]

\* The step of C15.
C15_HitStep ==
    \A r \in Requests :
        (ReqId(r) # Failed /\ ReqId(r) \in DOMAIN monomorphized /\ monomorphic_fn(r))
        => /\ UNCHANGED <<monomorphized, monomorphizing, n_monos, stack, inserted,
                          emitted, next_decl, status>>
           /\ result' = Ret(monomorphized[ReqId(r)], FALSE)

\* C15: a request whose MonoId is already cached leaves the cache, the depth
\* table and n_monos exactly as they were and calls no emission routine.
C15_HitDoesNothing == [][C15_HitStep]_vars

\* C15 witness: the second request of a run was a hit, after one instantiation.
C15_Witness ==
    /\ stack = <<>>
    /\ nreq = 2
    /\ n_monos = 1
    /\ \E x \in returns : x.path = "hit" /\ x.n = 2
    /\ Cardinality(DOMAIN monomorphized) = 1

\* The step of C16.
C16_ExternStep ==
    \A r \in Requests :
        ( /\ ReqId(r) # Failed
          /\ items[r.fn_id].node = "NodeForeignItem"
          /\ items[r.fn_id].sub = "Extern"
          /\ monomorphic_fn(r) )
        => /\ UNCHANGED <<monomorphized, monomorphizing, n_monos, stack, inserted,
                          emitted, next_decl, status>>
           /\ ReqId(r) \notin DOMAIN monomorphized
           /\ result'.val = get_item_val(r.fn_id)
           /\ Returned(nreq', r, ReqId(r), result', "extern") \in returns'

\* C16: a request for a foreign declaration that is not an intrinsic inserts
\* nothing into the cache and leaves the depth table and n_monos unchanged, so
\* every repeated request for it is a cache miss again that leaves by the same
\* early return with the same handle.
C16_ExternLeavesNoTrace == [][C16_ExternStep]_vars

\* C16 witness: the same foreign extern was requested twice, the second time
\* from inside an emission, and returned the same handle by the early return.
C16_Witness ==
    \E x \in returns : \E y \in returns :
        /\ x.req = y.req
        /\ x.n < y.n
        /\ x.path = "extern"
        /\ y.path = "extern"
        /\ x.ret = y.ret
        /\ stack # <<>>
        /\ Top.n > x.n
        /\ Top.n < y.n

\* The identity of a selection node holds one parameter per pair the zip of
\* its sub-selection lists with its implementation's type parameters yields.
RECURSIVE VtableIdZipped(_, _)
VtableIdZipped(id, origin) ==
    /\ id.def = origin.impl_id
    /\ Len(id.params) = Min(Len(origin.sub_vtables), Len(origin.substs.tps))
    /\ \A i \in 1..Len(id.params) :
        /\ id.params[i].subst = origin.substs.tps[i]
        /\ Len(id.params[i].vtables) = Len(origin.sub_vtables[i])
        /\ \A j \in 1..Len(origin.sub_vtables[i]) :
               VtableIdZipped(id.params[i].vtables[j], origin.sub_vtables[i][j])

\* The identity of a request holds one parameter per pair of the zip when
\* selection data is supplied, and one bare parameter per argument otherwise.
ParamsZipped(id, r) ==
    LET args == substs_iter(r.substs)
    IN  /\ id.def = r.fn_id
        /\ IF r.vtables # <<>>
           THEN /\ Len(id.params) = Min(Len(Sel(r)), Len(args))
                /\ \A i \in 1..Len(id.params) :
                    /\ id.params[i].subst = args[i]
                    /\ Len(id.params[i].vtables) = Len(Sel(r)[i])
                    /\ \A j \in 1..Len(Sel(r)[i]) :
                           VtableIdZipped(id.params[i].vtables[j], Sel(r)[i][j])
           ELSE /\ Len(id.params) = Len(args)
                /\ \A i \in 1..Len(args) :
                       id.params[i] = MonoParamId(args[i], <<>>)

\* C17: when selection data is supplied the MonoId has as many parameter
\* entries as the shorter of the selection lists (self selection first) and the
\* type arguments (self type first), entry i pairing argument i with selection
\* list i; without selection data it has one entry per type argument, each with
\* an empty selection list; make_vtable_id follows the same minimum-length rule
\* for an implementation's sub-selection lists and type parameters.
C17_ZipTruncates ==
    /\ (probe.done /\ probe.ida # Failed) => ParamsZipped(probe.ida, probe.a)
    /\ (probe.done /\ probe.idb # Failed) => ParamsZipped(probe.idb, probe.b)

\* C17 witness: one request has more type arguments than selection lists, the
\* other more selection lists than type arguments, and a nested selection has
\* more sub-selection lists than its implementation has type parameters.
C17_Witness ==
    /\ BothIdsBuilt
    /\ probe.a.vtables # <<>>
    /\ probe.b.vtables # <<>>
    /\ Len(Sel(probe.a)) = 1
    /\ Len(substs_iter(probe.a.substs)) = 3
    /\ Len(probe.ida.params) = 1
    /\ Sel(probe.a)[1] = <<vtable_static("impl1", NoSubsts, << <<StaticLeaf("impl1")>> >>)>>
    /\ probe.ida.params[1].vtables = <<MonoId("impl1", <<>>)>>
    /\ Len(Sel(probe.b)) = 3
    /\ Len(substs_iter(probe.b.substs)) = 1
    /\ Len(probe.idb.params) = 1

\* The pass was terminated, or the driver's request has returned.
Aborted == status # "running"

TopLevelReturned ==
    /\ stack = <<>>
    /\ \E x \in returns : x.n = 1 /\ IsHandle(x.ret.val)

\* C18: with a finite recursion limit and finitely many definitions, the
\* top-level request eventually returns a Handle or terminates the pass with a
\* fatal error, even when every emission issues a nested request with a
\* strictly larger type argument; the chain of requests stays below GrowCap, so
\* it is the recursion guard that ends it.
C18_Termination ==
    /\ <>(Aborted \/ TopLevelReturned)
    /\ [](nreq < GrowCap)
    /\ [](\A d \in DefIds : InFlight(d) <= recursion_limit + 1)

\* C18 witness: every emission requested f again with a larger argument until
\* the guard stopped the pass.
C18_Witness ==
    /\ status = "fatal_recursion"
    /\ recursion_limit = MaxLimit
    /\ culprit.fn_id = "f"
    /\ InFlight("f") = recursion_limit + 1
    /\ InFlight("g") = 0
    /\ \A i \in 1..Len(stack) : stack[i].req.substs.tps[1] < culprit.substs.tps[1]
    /\ \A i \in 1..(Len(stack) - 1) :
           stack[i].req.substs.tps[1] < stack[i + 1].req.substs.tps[1]

\* C19: for every definition the depth-table entry (0 if absent) equals the
\* number of active calls for it that passed the guard and have not restored
\* it, whatever their argument lists and whatever other definitions are active;
\* every entry is 0 when no call is active.
C19_DepthCountsActiveCalls ==
    /\ DOMAIN monomorphizing \subseteq DefIds
    /\ \A d \in DefIds : read_depth(monomorphizing, d) = InFlight(d)
    /\ stack = <<>> => \A d \in DOMAIN monomorphizing : monomorphizing[d] = 0

\* C19 witness: two calls for f with different argument lists around a call
\* for g, and later in the run an empty chain with both entries back at 0.
C19_Witness ==
    /\ Len(stack) = 3
    /\ stack[1].fn_id = "f"
    /\ stack[2].fn_id = "g"
    /\ stack[3].fn_id = "f"
    /\ stack[1].hash_id # stack[3].hash_id
    /\ monomorphizing["f"] = 2
    /\ monomorphizing["g"] = 1

\* Definition d is a foreign intrinsic the simple lowering handles.
SimplyLowered(d) ==
    items[d].node = "NodeForeignItem" /\ items[d].sub = "SimpleIntrinsic"

\* Entering: a request for a simply lowered intrinsic that gets past the abort
\* tests takes the miss path, counts as an instantiation and raises the depth.
C20_EnterStep ==
    \A r \in Requests :
        (SimplyLowered(r.fn_id) /\ ReqId(r) # Failed /\ monomorphic_fn(r))
        => /\ status' = "running"
           /\ n_monos' = n_monos + 1
           /\ read_depth(monomorphizing', r.fn_id) = read_depth(monomorphizing, r.fn_id) + 1
           /\ Len(stack') = Len(stack) + 1
           /\ UNCHANGED <<monomorphized, next_decl, inserted, emitted, returns>>

\* Leaving: the call returns the simple lowering's handle, restores the depth
\* and has declared and cached nothing.
C20_LeaveStep ==
    (stack # <<>> /\ Len(stack') < Len(stack) /\ SimplyLowered(Top.fn_id))
    => /\ result' = Ret(get_simple_intrinsic(Top.fn_id), FALSE)
       /\ read_depth(monomorphizing', Top.fn_id) = Top.depth
       /\ Returned(Top.n, Top.req, Top.hash_id, result', "fresh") \in returns'
       /\ UNCHANGED <<monomorphized, next_decl, inserted, emitted, n_monos>>

\* The calls that reached line 175: the ones that returned after the dispatch,
\* the active ones, and the one the recursion guard stopped.
ReachedCounter ==
    Cardinality({ x \in returns : x.path = "fresh" }) + Len(stack)
        + (IF status = "fatal_recursion" THEN 1 ELSE 0)

C20_State ==
    /\ n_monos = ReachedCounter
    /\ \A i \in 1..Len(stack) :
           SimplyLowered(stack[i].fn_id)
           => /\ stack[i].pc \in {"dispatch", "restore"}
              /\ stack[i].hash_id \notin DOMAIN monomorphized
              /\ i = Len(stack)
    /\ \A x \in returns :
           SimplyLowered(x.req.fn_id)
           => /\ x.path = "fresh"
              /\ x.ret = Ret(get_simple_intrinsic(x.req.fn_id), FALSE)
              /\ x.hash_id \notin DOMAIN monomorphized
    /\ status # "running" => ~SimplyLowered(culprit.fn_id) \/ ReqId(culprit) = Failed

\* C20: a foreign intrinsic the simple lowering handles returns the simple
\* lowering's handle without a declaration and without a cache entry, after the
\* guard raised and restored its depth and n_monos was incremented, so every
\* repeated request for the same MonoId is a miss again and takes the whole
\* miss path.
C20_SimpleIntrinsicNeverCached ==
    /\ [][C20_EnterStep /\ C20_LeaveStep]_vars
    /\ []C20_State

\* C20 witness: the same simply lowered intrinsic was requested twice with the
\* same arguments, once from inside an emission of g, and both times took the
\* miss path to the same handle.
C20_Witness ==
    \E x \in returns : \E y \in returns :
        /\ SimplyLowered(x.req.fn_id)
        /\ x.req = y.req
        /\ x.n < y.n
        /\ x.path = "fresh"
        /\ y.path = "fresh"
        /\ x.ret = y.ret
        /\ n_monos = 3
        /\ stack # <<>>
        /\ Top.fn_id = "g"
        /\ Top.n < y.n
        /\ monomorphizing["f"] = 0
        /\ DOMAIN monomorphized = {Top.hash_id}

====
